---- MODULE Spec2Model ----
(***************************************************************************)
(* colfmt: the column-width resolution engine of src/colfmt.go.            *)
(*                                                                         *)
(* The model follows Main: terminal size, flags, ParseColumnSpecs, the row *)
(* scan, the natural widths, the clamp pass, rebalanceWidths and the       *)
(* output loop.  Strings are sequences of one-character strings, Go slices *)
(* are 1-based sequences (widths[i] in Go is widths[i + 1] here), the      *)
(* map[int]*ColumnSpec is a function from 0-based column indices to heap   *)
(* addresses, and the heap is the sequence of ColumnSpec objects allocated *)
(* so far.                                                                 *)
(***************************************************************************)
EXTENDS Integers, Sequences, FiniteSets, TLC

VARIABLES
    pc,             \* position in Main
    terminalWidth,  \* package variable terminalWidth
    detected,       \* terminal.GetSize returned err == nil
    overridden,     \* the flag -w was given
    heap,           \* the ColumnSpec objects allocated by ParseColumnSpecs
    specs,          \* map[int]*ColumnSpec: column index -> heap address
    spec,           \* ParseColumnSpecs' current spec pointer
    needNewSpec,    \* ParseColumnSpecs' needNewSpec
    maxColumn,      \* ParseColumnSpecs' maxColumn
    word,           \* the word of the last loop iteration, after TrimSuffix
    nwords,         \* number of words scanned so far
    err,            \* the error returned by ParseColumnSpecs ("" is nil)
    rows,           \* [][]string
    widths,         \* []int
    consumedWidth,  \* rebalanceWidths' consumedWidth
    adjustable,     \* key set of rebalanceWidths' adjustable map
    calls,          \* number of calls of rebalanceWidths so far
    entryWidths,    \* history: widths at the entry of the current call
    iterations,     \* history: shrink loop iterations of the current call
    widthSet,       \* history: heap addresses that received a width token
    groups          \* history: number of the semicolon-delimited group being
                    \* scanned (cur), the spec its first word was applied
                    \* to (obj, 0 before that word) and, for every column
                    \* index named so far, the group that named it last (of)

vars == <<pc, terminalWidth, detected, overridden, heap, specs, spec,
          needNewSpec, maxColumn, word, nwords, err, rows, widths,
          consumedWidth, adjustable, calls, entryWidths, iterations, widthSet,
          groups>>

(***************************************************************************)
(* Bounds of the model.                                                    *)
(***************************************************************************)
MaxWords == 3
MaxRows == 2
MaxCols == 2

\* words of the spec description the scanner may deliver
Words ==
    { <<"0">>, <<"1">>, <<"2">>, <<"1", ";">>,
      <<"2", "c">>, <<"*">>, <<"1", "c", "-", "*">>,
      <<"1", "c", "-", "3", "c">>, <<"3", "c", "-", "1", "c">>,
      <<"a", "g", "e">>, <<";">>, <<";", ";">> }

\* field contents read from standard input
Fields == { <<>>, <<"x", "x", "x">> }

\* widths terminal.GetSize may report, and values of the flag -w
DetectedWidths == {5}
FlagWidths == {3}

(***************************************************************************)
(* ColumnType and ColumnSpec.                                              *)
(***************************************************************************)
TypeString == 0
TypeAge == 1

\* &ColumnSpec{}: every field has Go's zero value
ZeroSpec == [Type |-> TypeString, WidthMin |-> 0, WidthMax |-> 0]

HasFlexibleWidth(s) == s.WidthMax < 0 \/ s.WidthMax > s.WidthMin

(***************************************************************************)
(* strings and strconv.                                                    *)
(***************************************************************************)
DigitVal(c) ==
    CASE c = "0" -> 0 [] c = "1" -> 1 [] c = "2" -> 2 [] c = "3" -> 3
      [] c = "4" -> 4 [] c = "5" -> 5 [] c = "6" -> 6 [] c = "7" -> 7
      [] c = "8" -> 8 [] c = "9" -> 9 [] OTHER -> -1

IsDigits(s) == Len(s) > 0 /\ \A k \in 1..Len(s) : DigitVal(s[k]) >= 0

RECURSIVE DigitsVal(_)
DigitsVal(s) ==
    IF s = <<>> THEN 0
    ELSE 10 * DigitsVal(SubSeq(s, 1, Len(s) - 1)) + DigitVal(s[Len(s)])

\* strconv.Atoi: an optional sign followed by decimal digits
Atoi(s) ==
    LET signed == Len(s) > 0 /\ s[1] \in {"+", "-"}
        body == IF signed THEN Tail(s) ELSE s
    IN  IF IsDigits(body)
        THEN [ok |-> TRUE,
              n |-> IF signed /\ s[1] = "-" THEN 0 - DigitsVal(body)
                    ELSE DigitsVal(body)]
        ELSE [ok |-> FALSE, n |-> 0]

\* strings.HasSuffix and strings.TrimSuffix for a one-character suffix
HasSuffix(s, c) == Len(s) > 0 /\ s[Len(s)] = c

TrimSuffix(s, c) == IF HasSuffix(s, c) THEN SubSeq(s, 1, Len(s) - 1) ELSE s

\* strings.Split(s, "-")
RECURSIVE SplitDash(_)
SplitDash(s) ==
    IF \E k \in 1..Len(s) : s[k] = "-"
    THEN LET k == CHOOSE j \in 1..Len(s) :
                      s[j] = "-" /\ \A h \in 1..(j - 1) : s[h] # "-"
         IN  <<SubSeq(s, 1, k - 1)>> \o SplitDash(SubSeq(s, k + 1, Len(s)))
    ELSE <<s>>

\* parseColumnWidth: (width, ok)
parseColumnWidth(w) ==
    IF HasSuffix(w, "c") /\ Atoi(TrimSuffix(w, "c")).ok
    THEN [width |-> Atoi(TrimSuffix(w, "c")).n, ok |-> TRUE]
    ELSE IF w = <<"*">>
    THEN [width |-> -1, ok |-> TRUE]
    ELSE [width |-> 0, ok |-> FALSE]

(***************************************************************************)
(* Go maps as functions.                                                   *)
(***************************************************************************)
EmptyMap == [i \in {} |-> 0]

MapPut(m, k, v) == [i \in (DOMAIN m) \cup {k} |-> IF i = k THEN v ELSE m[i]]

Max(a, b) == IF a > b THEN a ELSE b

(***************************************************************************)
(* Row scan and natural widths.                                            *)
(***************************************************************************)
\* renderAge: (string, failed).  Every layout of timeLayouts needs more
\* characters than any member of Fields has, so time.Parse fails for each
\* layout and the original string is returned together with an error.
renderAge(s) == [str |-> s, failed |-> TRUE]

\* Main, lines 90-100: the strings of one input line
RenderRow(cols) ==
    [i \in 1..Len(cols) |->
        IF (i - 1) \in DOMAIN specs /\ heap[specs[i - 1]].Type = TypeAge
        THEN renderAge(cols[i]).str
        ELSE cols[i]]

\* Main, lines 111-121: the longest field of column j (0 when rs is empty)
RECURSIVE NaturalWidth(_, _)
NaturalWidth(rs, j) ==
    IF rs = <<>> THEN 0
    ELSE Max(NaturalWidth(Tail(rs), j), Len(Head(rs)[j]))

\* variant of ClampWidth that takes a WidthMax of 0 for "no maximum"
ClampWidthZeroUnbounded(width, s) ==
    IF s.WidthMax > 0 /\ width > s.WidthMax THEN s.WidthMax
    ELSE IF width < s.WidthMin THEN s.WidthMin
    ELSE width

\* Main, lines 124-136: one width after the clamp; both tests read the
\* width the column had before the pass
ClampWidth(width, s) ==
    IF s.WidthMax >= 0 /\ width > s.WidthMax THEN s.WidthMax
    ELSE IF width < s.WidthMin THEN s.WidthMin
    ELSE width

(***************************************************************************)
(* Main up to the end of ParseColumnSpecs.                                 *)
(***************************************************************************)
Init ==
    /\ pc = "getsize"
    /\ terminalWidth = 0
    /\ detected = FALSE
    /\ overridden = FALSE
    /\ heap = <<>>
    /\ specs = EmptyMap
    /\ spec = 0
    /\ needNewSpec = FALSE
    /\ maxColumn = 0
    /\ word = <<>>
    /\ nwords = 0
    /\ err = ""
    /\ rows = <<>>
    /\ widths = <<>>
    /\ consumedWidth = 0
    /\ adjustable = {}
    /\ calls = 0
    /\ entryWidths = <<>>
    /\ iterations = 0
    /\ widthSet = {}
    /\ groups = [cur |-> 1, obj |-> 0, of |-> EmptyMap]

\* terminal.GetSize succeeds and reports the width w
GetSizeOk ==
    /\ pc = "getsize"
    /\ \E w \in DetectedWidths : terminalWidth' = w
    /\ detected' = TRUE
    /\ pc' = "flags"
    /\ UNCHANGED <<overridden, heap, specs, spec, needNewSpec, maxColumn,
                   word, nwords, err, rows, widths, consumedWidth,
                   adjustable, calls, entryWidths, iterations, widthSet,
                   groups>>

\* terminal.GetSize fails: terminalWidth keeps its initial value
GetSizeFail ==
    /\ pc = "getsize"
    /\ pc' = "flags"
    /\ UNCHANGED <<terminalWidth, detected, overridden, heap, specs, spec,
                   needNewSpec, maxColumn, word, nwords, err, rows, widths,
                   consumedWidth, adjustable, calls, entryWidths, iterations,
                   widthSet, groups>>

\* fs.Parse with -w given, then the first statements of ParseColumnSpecs
ParseFlagsWidth ==
    /\ pc = "flags"
    /\ \E w \in FlagWidths : terminalWidth' = w
    /\ overridden' = TRUE
    /\ heap' = <<ZeroSpec>>
    /\ spec' = 1
    /\ pc' = "parse"
    /\ UNCHANGED <<detected, specs, needNewSpec, maxColumn, word, nwords,
                   err, rows, widths, consumedWidth, adjustable, calls,
                   entryWidths, iterations, widthSet, groups>>

\* fs.Parse without -w, then the first statements of ParseColumnSpecs
ParseFlagsDefault ==
    /\ pc = "flags"
    /\ heap' = <<ZeroSpec>>
    /\ spec' = 1
    /\ pc' = "parse"
    /\ UNCHANGED <<terminalWidth, detected, overridden, specs, needNewSpec,
                   maxColumn, word, nwords, err, rows, widths, consumedWidth,
                   adjustable, calls, entryWidths, iterations, widthSet,
                   groups>>

\* variant of CurrentSpec that goes on with the spec of the previous group
CurrentSpecKept == spec

\* lines 215-218: the spec the word is applied to
CurrentSpec == IF needNewSpec THEN Len(heap) + 1 ELSE spec

\* one iteration of the scan loop of ParseColumnSpecs on the word w
ScanWord(w) ==
    LET sp == CurrentSpec
        hp == IF needNewSpec THEN Append(heap, ZeroSpec) ELSE heap
        wd == TrimSuffix(w, ";")
        num == Atoi(wd)
        exact == parseColumnWidth(wd)
        bounds == SplitDash(wd)
        isRange == /\ Len(bounds) = 2
                   /\ parseColumnWidth(bounds[1]).ok
                   /\ parseColumnWidth(bounds[2]).ok
    IN  /\ spec' = sp
        /\ groups' = [cur |-> IF HasSuffix(w, ";") THEN groups.cur + 1
                              ELSE groups.cur,
                      obj |-> IF HasSuffix(w, ";") THEN 0
                              ELSE IF groups.obj = 0 THEN sp
                              ELSE groups.obj,
                      of |-> IF num.ok /\ num.n >= 1
                             THEN MapPut(groups.of, num.n - 1, groups.cur)
                             ELSE groups.of]
        /\ word' = wd
        /\ nwords' = nwords + 1
        /\ IF num.ok
           THEN IF num.n < 1
                THEN /\ err' = "invalid column number"
                     /\ specs' = EmptyMap
                     /\ pc' = "died"
                     /\ needNewSpec' = HasSuffix(w, ";")
                     /\ heap' = hp
                     /\ UNCHANGED <<maxColumn, widthSet>>
                ELSE /\ specs' = MapPut(specs, num.n - 1, sp)
                     /\ maxColumn' = Max(maxColumn, num.n)
                     /\ needNewSpec' = HasSuffix(w, ";")
                     /\ heap' = hp
                     /\ UNCHANGED <<pc, err, widthSet>>
           ELSE IF exact.ok
           THEN /\ heap' = [hp EXCEPT ![sp].WidthMin = exact.width,
                                      ![sp].WidthMax = exact.width]
                /\ widthSet' = widthSet \cup {sp}
                /\ needNewSpec' = HasSuffix(w, ";")
                /\ UNCHANGED <<pc, err, specs, maxColumn>>
           ELSE IF isRange
           THEN /\ heap' = [hp EXCEPT
                              ![sp].WidthMin = parseColumnWidth(bounds[1]).width,
                              ![sp].WidthMax = parseColumnWidth(bounds[2]).width]
                /\ widthSet' = widthSet \cup {sp}
                /\ needNewSpec' = HasSuffix(w, ";")
                /\ UNCHANGED <<pc, err, specs, maxColumn>>
           ELSE IF wd = <<";">>
           THEN /\ needNewSpec' = TRUE
                /\ heap' = hp
                /\ UNCHANGED <<pc, err, specs, maxColumn, widthSet>>
           ELSE IF wd = <<"a", "g", "e">>
           THEN /\ heap' = [hp EXCEPT ![sp].Type = TypeAge]
                /\ needNewSpec' = HasSuffix(w, ";")
                /\ UNCHANGED <<pc, err, specs, maxColumn, widthSet>>
           ELSE /\ err' = "unexpected token"
                /\ specs' = EmptyMap
                /\ pc' = "died"
                /\ needNewSpec' = HasSuffix(w, ";")
                /\ heap' = hp
                /\ UNCHANGED <<maxColumn, widthSet>>

\* scan.Scan() delivers the next word of the spec description
ParseWord ==
    /\ pc = "parse"
    /\ nwords < MaxWords
    /\ \E w \in Words : ScanWord(w)
    /\ UNCHANGED <<terminalWidth, detected, overridden, rows, widths,
                   consumedWidth, adjustable, calls, entryWidths, iterations>>

\* the heap addresses the map refers to
Referenced(m) == {m[i] : i \in DOMAIN m}

\* scan.Scan() reports the end of the description: return specs, nil.
\* The locals of ParseColumnSpecs cease to exist, and with them every
\* ColumnSpec that only the local spec pointed to.
ParseReturn ==
    /\ pc = "parse"
    /\ pc' = "read"
    /\ spec' = 0
    /\ needNewSpec' = FALSE
    /\ maxColumn' = 0
    /\ word' = <<>>
    /\ nwords' = 0
    /\ heap' = [p \in Referenced(specs) |-> heap[p]]
    /\ widthSet' = widthSet \cap Referenced(specs)
    /\ groups' = [groups EXCEPT !.cur = 0, !.obj = 0]
    /\ UNCHANGED <<terminalWidth, detected, overridden, specs, err,
                   rows, widths, consumedWidth, adjustable, calls,
                   entryWidths, iterations>>

(***************************************************************************)
(* Main: rows, natural widths, clamp.                                      *)
(***************************************************************************)
\* s.Scan() delivers one more input line with n fields
ReadRow ==
    /\ pc = "read"
    /\ Len(rows) < MaxRows
    /\ \E n \in 1..MaxCols : \E cols \in [1..n -> Fields] :
          rows' = Append(rows, RenderRow(cols))
    /\ UNCHANGED <<pc, terminalWidth, detected, overridden, heap, specs, spec,
                   needNewSpec, maxColumn, word, nwords, err, widths,
                   consumedWidth, adjustable, calls, entryWidths, iterations,
                   widthSet, groups>>

\* the widths of Main, lines 110-136: the natural width of every column,
\* adjusted by the spec of the column where it has one
ResolvedWidths ==
    [j \in 1..Len(rows[1]) |->
        IF (j - 1) \in DOMAIN specs
        THEN ClampWidth(NaturalWidth(rows, j), heap[specs[j - 1]])
        ELSE NaturalWidth(rows, j)]

\* s.Scan() reports the end of the input (lines 103-136): Main returns when
\* there is no row, dies when a row has another field count than the first
\* (the process exits and its rows are gone), and otherwise computes the
\* natural widths and adjusts them to the specs
EndOfInput ==
    /\ pc = "read"
    /\ IF Len(rows) = 0
       THEN /\ pc' = "done"
            /\ UNCHANGED <<err, rows, widths>>
       ELSE IF \E r \in 1..Len(rows) : Len(rows[r]) # Len(rows[1])
       THEN /\ pc' = "died"
            /\ err' = "Not all records have the same number of fields"
            /\ rows' = <<>>
            /\ widths' = <<>>
       ELSE /\ pc' = "rebalance"
            /\ widths' = ResolvedWidths
            /\ UNCHANGED <<err, rows>>
    /\ UNCHANGED <<terminalWidth, detected, overridden, heap, specs, spec,
                   needNewSpec, maxColumn, word, nwords, consumedWidth,
                   adjustable, calls, entryWidths, iterations, widthSet,
                   groups>>

(***************************************************************************)
(* rebalanceWidths.                                                        *)
(***************************************************************************)
RECURSIVE SumSeq(_)
SumSeq(s) == IF s = <<>> THEN 0 ELSE Head(s) + SumSeq(Tail(s))

\* variant of ConsumedWidth that counts a gutter for the first column too
ConsumedWidthGutterEach(ws) == SumSeq(ws) + 2 * Len(ws)

\* lines 343-350: widths plus a gutter of 2 before every column but the first
ConsumedWidth(ws) == SumSeq(ws) + 2 * (Len(ws) - 1)

\* lines 352-358: the keys of the adjustable map
Adjustable(ws) ==
    {i \in DOMAIN specs :
        HasFlexibleWidth(heap[specs[i]]) /\ ws[i + 1] > heap[specs[i]].WidthMin}

\* line 355 evaluates widths[i] for every flexible spec; it faults when the
\* spec names a column the data does not have
IndexOutOfRange(ws) ==
    \E i \in DOMAIN specs : HasFlexibleWidth(heap[specs[i]]) /\ i >= Len(ws)

\* lines 363-371: the indices the scan for the widest column can end with.
\* The map is ranged over in an unspecified order and only a width greater
\* than widestWidth (initially 0) replaces widestIndex (initially 0).
WidestIndex ==
    LET pos == {i \in adjustable : widths[i + 1] > 0}
    IN  IF pos = {} THEN {0}
        ELSE {i \in pos : \A k \in pos : widths[k + 1] <= widths[i + 1]}

\* variant of LoopCondition that goes on when the widths fit exactly
LoopConditionOrEqual == consumedWidth >= terminalWidth /\ adjustable # {}

\* line 362: the condition of the shrink loop
LoopCondition == consumedWidth > terminalWidth /\ adjustable # {}

\* variant of ReachedMin that keeps a column at its WidthMin adjustable
ReachedMinStrict(width, s) == width < s.WidthMin

\* line 376: the column is taken out of the adjustable map
ReachedMin(width, s) == width <= s.WidthMin

\* lines 339-358: entry of rebalanceWidths up to the shrink loop
RebalanceCall ==
    /\ calls' = calls + 1
    /\ entryWidths' = widths
    /\ iterations' = 0
    /\ consumedWidth' = ConsumedWidth(widths)
    /\ IF IndexOutOfRange(widths)
       THEN /\ pc' = "panic"
            /\ adjustable' = {}
       ELSE /\ pc' = "loop"
            /\ adjustable' = Adjustable(widths)
    /\ UNCHANGED <<terminalWidth, detected, overridden, heap, specs, spec,
                   needNewSpec, maxColumn, word, nwords, err, rows, widths,
                   widthSet, groups>>

\* Main, line 138
Rebalance ==
    /\ pc = "rebalance"
    /\ RebalanceCall

\* lines 362-379: one iteration of the shrink loop.  adjustable[widestIndex]
\* is a nil pointer when widestIndex is not a key, and reading its WidthMin
\* faults after the two decrements.
RebalanceStep ==
    /\ pc = "loop"
    /\ LoopCondition
    /\ \E widestIndex \in WidestIndex :
          /\ widths' = [widths EXCEPT ![widestIndex + 1] = @ - 1]
          /\ IF widestIndex \in adjustable
             THEN /\ adjustable' =
                        IF ReachedMin(widths'[widestIndex + 1],
                                      heap[specs[widestIndex]])
                        THEN adjustable \ {widestIndex}
                        ELSE adjustable
                  /\ pc' = "loop"
             ELSE /\ adjustable' = adjustable
                  /\ pc' = "panic"
    /\ consumedWidth' = consumedWidth - 1
    /\ iterations' = iterations + 1
    /\ UNCHANGED <<terminalWidth, detected, overridden, heap, specs, spec,
                   needNewSpec, maxColumn, word, nwords, err, rows, calls,
                   entryWidths, widthSet, groups>>

\* line 381: the loop condition is false
RebalanceReturn ==
    /\ pc = "loop"
    /\ ~LoopCondition
    /\ pc' = "format"
    /\ UNCHANGED <<terminalWidth, detected, overridden, heap, specs, spec,
                   needNewSpec, maxColumn, word, nwords, err, rows, widths,
                   consumedWidth, adjustable, calls, entryWidths, iterations,
                   widthSet, groups>>

\* rebalanceWidths applied once more to the vector it returned
RebalanceAgain ==
    /\ pc = "format"
    /\ calls = 1
    /\ RebalanceCall

(***************************************************************************)
(* Main: output.                                                           *)
(***************************************************************************)
\* lines 155-158: row[i][0:widths[i]] for a field longer than the width
Truncate(field, width) ==
    IF Len(field) > width THEN SubSeq(field, 1, width) ELSE field

\* lines 151-161 for one row, up to but not including column stop: a column
\* of width 0 is skipped, a longer field is cut in place
FormatRow(row, stop) ==
    [i \in 1..Len(row) |->
        IF i < stop /\ widths[i] # 0 THEN Truncate(row[i], widths[i])
        ELSE row[i]]

\* lines 141-165: every row is cut to the widths and written.  The slice
\* expression row[i][0:widths[i]] faults for a negative width, which the
\* first row meets at its first such column.
Format ==
    /\ pc = "format"
    /\ IF \E i \in 1..Len(widths) : widths[i] < 0
       THEN /\ pc' = "panic"
            /\ rows' = [rows EXCEPT ![1] =
                          FormatRow(@, CHOOSE i \in 1..Len(widths) :
                              /\ widths[i] < 0
                              /\ \A k \in 1..(i - 1) : widths[k] >= 0)]
       ELSE /\ pc' = "done"
            /\ rows' = [r \in 1..Len(rows) |->
                          FormatRow(rows[r], Len(widths) + 1)]
    /\ UNCHANGED <<terminalWidth, detected, overridden, heap, specs, spec,
                   needNewSpec, maxColumn, word, nwords, err, widths,
                   consumedWidth, adjustable, calls, entryWidths, iterations,
                   widthSet, groups>>

Next ==
    \/ GetSizeOk
    \/ GetSizeFail
    \/ ParseFlagsWidth
    \/ ParseFlagsDefault
    \/ ParseWord
    \/ ParseReturn
    \/ ReadRow
    \/ EndOfInput
    \/ Rebalance
    \/ RebalanceStep
    \/ RebalanceReturn
    \/ RebalanceAgain
    \/ Format

Spec == Init /\ [][Next]_vars

(***************************************************************************)
(* Properties.                                                             *)
(***************************************************************************)
\* the columns of the data that have an entry in the spec mapping
Specified == {j \in 1..Len(widths) : (j - 1) \in DOMAIN specs}

SpecOf(j) == heap[specs[j - 1]]

\* consumed width as the specification defines it
ConsumedOf(ws) == SumSeq(ws) + 2 * (Len(ws) - 1)

\* C1: rebalanceWidths never changes the width of a column that has no
\* entry in the spec mapping, nor of a column whose spec has
\* WidthMin = WidthMax: in every state of the shrink loop and on return the
\* width equals the width on entry.
C1_RigidColumnsKeepWidth ==
    calls >= 1 =>
        \A j \in 1..Len(widths) :
            (j \notin Specified \/ SpecOf(j).WidthMin = SpecOf(j).WidthMax)
                => widths[j] = entryWidths[j]

\* C2: for a mapping produced by ParseColumnSpecs and widths produced by the
\* clamp pass, in every state of rebalanceWidths and on return each column
\* that has a spec is at least as wide as the spec's WidthMin.
C2_NeverBelowWidthMin ==
    calls >= 1 =>
        \A j \in Specified : widths[j] >= SpecOf(j).WidthMin

\* the columns that are adjustable for the width vector ws
AdjustableColumns(ws) ==
    {j \in 1..Len(ws) :
        /\ (j - 1) \in DOMAIN specs
        /\ HasFlexibleWidth(heap[specs[j - 1]])
        /\ ws[j] > heap[specs[j - 1]].WidthMin}

RECURSIVE SlackOver(_, _)
SlackOver(ws, cols) ==
    IF cols = {} THEN 0
    ELSE LET j == CHOOSE c \in cols : TRUE
         IN  (ws[j] - heap[specs[j - 1]].WidthMin) + SlackOver(ws, cols \ {j})

\* sum of (width - WidthMin) over the columns adjustable for ws
Slack(ws) == SlackOver(ws, AdjustableColumns(ws))

\* C3: the shrink loop terminates: every iteration is counted, and the count
\* never exceeds the sum over the columns adjustable on entry of
\* (width - WidthMin).
C3_IterationsBounded ==
    calls >= 1 => iterations <= Slack(entryWidths)

\* a call has used up the whole bound, shrinking by more than one character
C3_Witness ==
    /\ pc = "format"
    /\ iterations >= 2
    /\ iterations = Slack(entryWidths)

\* on return: the widths fit, or no flexible column is above its WidthMin
C4_OnReturn ==
    pc = "format" =>
        \/ ConsumedOf(widths) <= terminalWidth
        \/ AdjustableColumns(widths) = {}

\* on return after a decrement with an adjustable column left, the widths
\* fill the available width exactly
C4_ExactFit ==
    (pc = "format" /\ iterations >= 1 /\ AdjustableColumns(widths) # {})
        => ConsumedOf(widths) = terminalWidth

\* a step of the shrink loop starts from widths that do not fit
C4_DecrementOnlyWhenTooWide ==
    (pc = "loop" /\ widths' # widths) => ConsumedOf(widths) > terminalWidth

\* C4: rebalanceWidths halts exactly when the consumed width (sum of widths
\* plus 2 x (columnCount - 1)) is at most availableWidth or the adjustable
\* set is empty: on return one of the two holds, no decrement is made when
\* the widths already fit, and a return after a decrement with an adjustable
\* column left has consumed width = availableWidth.
C4_HaltsExactly ==
    /\ [](C4_OnReturn /\ C4_ExactFit)
    /\ [][C4_DecrementOnlyWhenTooWide]_vars

\* a return after a decrement, with a column that could still shrink
C4_Witness ==
    /\ pc = "format"
    /\ iterations >= 1
    /\ AdjustableColumns(widths) # {}
    /\ ConsumedOf(widths) = terminalWidth

\* C5: when the terminal width cannot be detected and -w is not given,
\* rebalancing is skipped: the widths used for output are the clamped widths.
C5_UndetectedTerminalSkipsRebalance ==
    (pc = "format" /\ calls = 1 /\ ~detected /\ ~overridden)
        => widths = entryWidths

\* the step scans one word; the word is exactly ";" iff nothing is left of
\* it after TrimSuffix
ScansSemicolon == pc = "parse" /\ nwords' = nwords + 1 /\ word' = <<>>

\* C6: a word that is exactly ";" is accepted without error; it ends the
\* current spec (the next word starts a fresh one) and changes neither the
\* mapping nor any spec.
C6_SemicolonAccepted ==
    [][ScansSemicolon =>
          /\ pc' = "parse"
          /\ err' = ""
          /\ needNewSpec'
          /\ specs' = specs
          /\ \A p \in DOMAIN heap : heap'[p] = heap[p]]_vars

\* the step scans the width token "*" (with or without a closing ";")
ScansStar == pc = "parse" /\ nwords' = nwords + 1 /\ word' = <<"*">>

\* WidthMin of the current spec before the token is applied
PriorWidthMin == IF needNewSpec THEN ZeroSpec.WidthMin ELSE heap[spec].WidthMin

C7_StarStep ==
    ScansStar =>
        /\ heap'[spec'].WidthMax = -1
        /\ heap'[spec'].WidthMin = PriorWidthMin

C7_ParsedRange ==
    pc = "read" =>
        \A i \in DOMAIN specs :
            heap[specs[i]].WidthMin >= 0 /\ heap[specs[i]].WidthMax >= -1

\* C7: the width token "*" sets WidthMax of the current spec to -1 and
\* leaves its WidthMin as it was; so every spec of a successfully parsed
\* mapping has WidthMin >= 0 and WidthMax >= -1.
C7_StarLeavesWidthMin ==
    /\ [][C7_StarStep]_vars
    /\ []C7_ParsedRange

\* C8: a spec whose group holds no width token has WidthMin = 0 and
\* WidthMax = -1, so after the clamp pass its column still has its natural
\* width, the length of the longest field of the column.
C8_NoWidthTokenMeansUnbounded ==
    /\ pc = "read" =>
          \A i \in DOMAIN specs :
              specs[i] \notin widthSet =>
                  /\ heap[specs[i]].WidthMin = 0
                  /\ heap[specs[i]].WidthMax = -1
    /\ pc = "rebalance" =>
          \A j \in Specified :
              specs[j - 1] \notin widthSet =>
                  widths[j] = NaturalWidth(rows, j)

\* the clamp result of column j lies within the bounds of its spec
WithinBounds(j) ==
    /\ widths[j] >= SpecOf(j).WidthMin
    /\ SpecOf(j).WidthMax >= 0 => widths[j] <= SpecOf(j).WidthMax

\* the bounds of column j's spec can be met by some width
Satisfiable(j) ==
    SpecOf(j).WidthMax < 0 \/ SpecOf(j).WidthMin <= SpecOf(j).WidthMax

\* C9 as stated: after the clamp pass every column with a spec is within
\* the spec's bounds, every column without one has its natural width, and
\* there are as many widths as the first row has fields.
C9_ClampedWithinBounds ==
    pc = "rebalance" =>
        /\ \A j \in Specified : WithinBounds(j)
        /\ \A j \in (1..Len(widths)) \ Specified :
              widths[j] = NaturalWidth(rows, j)
        /\ Len(widths) = Len(rows[1])

\* C9 as amended: the same, for the columns whose spec has no maximum or has
\* WidthMin <= WidthMax.
C9_ClampedWithinSatisfiableBounds ==
    pc = "rebalance" =>
        /\ \A j \in Specified : Satisfiable(j) => WithinBounds(j)
        /\ \A j \in (1..Len(widths)) \ Specified :
              widths[j] = NaturalWidth(rows, j)
        /\ Len(widths) = Len(rows[1])

\* two rows, a column lowered to its WidthMax and a column without a spec
C9_Witness ==
    /\ pc = "rebalance"
    /\ Len(rows) = 2
    /\ \E j \in Specified :
          /\ Satisfiable(j)
          /\ SpecOf(j).WidthMax > 0
          /\ NaturalWidth(rows, j) > SpecOf(j).WidthMax
          /\ widths[j] = SpecOf(j).WidthMax
    /\ \E j \in (1..Len(widths)) \ Specified : widths[j] > 0

\* C10: rebalanceWidths returns a vector that already fits unchanged, and
\* applied again to the vector it returned, with the same mapping and the
\* same availableWidth, it leaves that vector unchanged.
C10_NoOpAndIdempotent ==
    /\ (calls >= 1 /\ ConsumedOf(entryWidths) <= terminalWidth)
          => widths = entryWidths
    /\ calls = 2 => widths = entryWidths

\* the second call has returned a vector that the first call had shrunk
C10_Witness ==
    /\ pc = "format"
    /\ calls = 2
    /\ \E j \in Specified :
          widths[j] < ClampWidth(NaturalWidth(rows, j), SpecOf(j))

\* the step scans one word of the spec description without an error
ScansWord == pc = "parse" /\ nwords' = nwords + 1 /\ pc' = "parse"

\* the word is a width range and sets the bounds lo and hi
IsRange(wd, lo, hi) ==
    /\ ~Atoi(wd).ok
    /\ ~parseColumnWidth(wd).ok
    /\ Len(SplitDash(wd)) = 2
    /\ parseColumnWidth(SplitDash(wd)[1]) = [width |-> lo, ok |-> TRUE]
    /\ parseColumnWidth(SplitDash(wd)[2]) = [width |-> hi, ok |-> TRUE]

\* indices map to the same spec exactly when the same group named them
C11_SharedWithinGroup ==
    pc # "died" =>
        \A i, j \in DOMAIN specs :
            (groups.of[i] = groups.of[j]) <=> (specs[i] = specs[j])

\* every word of a group is applied to one spec, which no index of another
\* group maps to
C11_OneSpecPerGroup ==
    ScansWord =>
        /\ groups.obj # 0 => spec' = groups.obj
        /\ groups.obj = 0 => spec' \notin Referenced(specs)
        /\ \A i \in DOMAIN specs' :
              groups'.of[i] = groups.cur => specs'[i] = spec'

\* a width or type token is written to the spec of its group and the spec
\* keeps what the earlier tokens of the group wrote
C11_TokensReflected ==
    ScansWord =>
        /\ (~Atoi(word').ok /\ parseColumnWidth(word').ok) =>
              /\ heap'[spec'].WidthMin = parseColumnWidth(word').width
              /\ heap'[spec'].WidthMax = parseColumnWidth(word').width
        /\ \A lo, hi \in -1..3 :
              IsRange(word', lo, hi) =>
                  heap'[spec'].WidthMin = lo /\ heap'[spec'].WidthMax = hi
        /\ word' = <<"a", "g", "e">> => heap'[spec'].Type = TypeAge
        /\ (groups.obj # 0 /\ word' # <<"a", "g", "e">>) =>
              heap'[spec'].Type = heap[groups.obj].Type
        /\ (/\ groups.obj # 0
            /\ (Atoi(word').ok \/ word' \in {<<";">>, <<"a", "g", "e">>}))
           =>
              /\ heap'[spec'].WidthMin = heap[groups.obj].WidthMin
              /\ heap'[spec'].WidthMax = heap[groups.obj].WidthMax

\* the words of a group leave the specs of the indices of other groups alone
C11_EarlierGroupsKept ==
    ScansWord =>
        \A i \in DOMAIN specs :
            (groups.of[i] # groups.cur /\ groups'.of[i] = groups.of[i]) =>
                specs'[i] = specs[i] /\ heap'[specs'[i]] = heap[specs[i]]

\* C11: each semicolon-delimited group forms exactly one spec shared by all
\* column indices named in the group: they map to the same spec, which holds
\* every width and type token of the group whether it stands before or after
\* the index, and the tokens of a later group never change the spec of an
\* index named in an earlier group, unless the index is named again.
C11_GroupFormsOneSpec ==
    /\ []C11_SharedWithinGroup
    /\ [][/\ C11_OneSpecPerGroup
          /\ C11_TokensReflected
          /\ C11_EarlierGroupsKept]_vars

\* parsing is over: two indices named by one group share a spec, and the
\* spec holds a width token
C11_Witness ==
    /\ pc = "read"
    /\ \E i, j \in DOMAIN specs :
          /\ i # j
          /\ groups.of[i] = groups.of[j]
          /\ specs[i] = specs[j]
          /\ specs[i] \in widthSet

\* C12: in every iteration of the shrink loop the column whose width is
\* decremented is in the adjustable set at that moment, and no adjustable
\* column is wider; also when every adjustable column has width <= 0.
C12_WidestAdjustableShrinks ==
    [][(pc = "loop" /\ widths' # widths) =>
          \E i \in adjustable :
              /\ widths' = [widths EXCEPT ![i + 1] = @ - 1]
              /\ \A k \in adjustable : widths[k + 1] <= widths[i + 1]]_vars

\* C13: rebalanceWidths reads and writes only width entries of columns the
\* data has: a flexible spec that names a column beyond the last one is
\* ignored, the call made by Main reaches the shrink loop without a runtime
\* fault, and only columns of the data become adjustable.
C13_SpecBeyondLastColumnIgnored ==
    [][pc = "rebalance" =>
          /\ pc' = "loop"
          /\ \A i \in adjustable' : i < Len(widths)]_vars

====
